---- MODULE Spec2Model ----
(***************************************************************************)
(* Model of update-repos.py: selection of the target repositories, the     *)
(* per-repository pipeline (sync, locate, mutate, branch, commit, publish) *)
(* and the literal substitution done by update_file.                       *)
(*                                                                         *)
(* Strings whose characters matter (repository names, the substring rule,  *)
(* topics, file contents, target and replacement) are sequences of         *)
(* one-character strings.  Branch names and paths are only compared for    *)
(* equality and are plain strings.                                         *)
(***************************************************************************)
EXTENDS Integers, Sequences, FiniteSets, TLC

\* ------------------------------------------------------------------ bounds

\* number of invocations of the tool against the same work_dir
MaxRuns == 2
\* longest file content drawn in the substitution specification
MaxLen == 3
\* longest target / replacement drawn in the substitution specification
MaxPat == 2
\* longest explicit repo_list drawn in the selection specification
MaxList == 2

\* ------------------------------------------------------------------ strings

NL == "\n"
CR == "\r"
Chars == {"a", "b", NL, CR}
\* the characters drawn for a target or a replacement
PatChars == {"a", "b", NL}

RECURSIVE StringsUpTo(_, _)
StringsUpTo(alphabet, n) ==
    IF n = 0 THEN {<<>>}
    ELSE LET S == StringsUpTo(alphabet, n - 1)
         IN  S \cup {Append(s, c) : s \in {x \in S : Len(x) = n - 1}, c \in alphabet}

\* t occurs in s starting at position i (1-based)
OccursAt(s, t, i) ==
    /\ i >= 1
    /\ i + Len(t) - 1 <= Len(s)
    /\ SubSeq(s, i, i + Len(t) - 1) = t

\* Python's `t in s` for strings
Contains(s, t) == \E i \in 1..(Len(s) + 1) : OccursAt(s, t, i)

\* Python's truthiness of an optional string argument: None and "" are falsy
Truthy(s) == s # <<>>

RECURSIVE Interleave(_, _)
Interleave(s, r) ==
    IF s = <<>> THEN r ELSE r \o <<Head(s)>> \o Interleave(Tail(s), r)

RECURSIVE ReplaceScan(_, _, _)
ReplaceScan(s, t, r) ==
    IF Len(s) < Len(t) THEN s
    ELSE IF SubSeq(s, 1, Len(t)) = t
         THEN r \o ReplaceScan(SubSeq(s, Len(t) + 1, Len(s)), t, r)
         ELSE <<Head(s)>> \o ReplaceScan(Tail(s), t, r)

\* Python's str.replace(t, r): leftmost, non-overlapping occurrences; an
\* empty t inserts r before every character and at the end
StrReplace(s, t, r) ==
    IF t = <<>> THEN Interleave(s, r) ELSE ReplaceScan(s, t, r)

\* the lines a text-mode file object yields (universal newlines): a line
\* ends at "\n", "\r\n" or "\r", its terminator is handed over as "\n", and
\* the last line may have none
RECURSIVE ReadLines(_)
ReadLines(content) ==
    IF content = <<>> THEN <<>>
    ELSE LET ends == {i \in 1..Len(content) : content[i] \in {NL, CR}}
         IN  IF ends = {} THEN <<content>>
             ELSE LET e == CHOOSE i \in ends : \A j \in ends : i <= j
                      crlf == content[e] = CR /\ e < Len(content) /\ content[e + 1] = NL
                      rest == IF crlf THEN e + 2 ELSE e + 1
                  IN  <<Append(SubSeq(content, 1, e - 1), NL)>>
                          \o ReadLines(SubSeq(content, rest, Len(content)))

RECURSIVE Concat(_)
Concat(ss) == IF ss = <<>> THEN <<>> ELSE Head(ss) \o Concat(Tail(ss))

\* the content update_file leaves in an existing file
RewriteContent(content, t, r) ==
    LET lines == ReadLines(content)
    IN  Concat([i \in 1..Len(lines) |-> StrReplace(lines[i], t, r)])

\* a tree maps the paths that exist to their content
EmptyTree == <<>>
HasFile(tree, path) == path \in DOMAIN tree

\* update_file on a working tree: a missing file only prints a warning
update_file(tree, path, t, r) ==
    IF HasFile(tree, path)
    THEN [tree EXCEPT ![path] = RewriteContent(tree[path], t, r)]
    ELSE tree

\* ------------------------------------------------------------------ world

NameSA == <<"s", "a">>
NameSB == <<"s", "b">>
NameC == <<"c">>
AllNames == {NameSA, NameSB, NameC}

\* the fields of a PyGithub Repository object the code and the spec read
Topics(name) ==
    IF name = NameSA THEN {<<"t">>} ELSE IF name = NameC THEN {<<"t">>, <<"u">>} ELSE {}
Archived(name) == name = NameC
DefaultBranch(name) == IF name = NameSA THEN "develop" ELSE "main"

\* content of the default branch of each repository before the first run
UpstreamTree(name) ==
    IF name = NameSA THEN ("f" :> <<"a", NL>>) @@ ("g" :> <<"a", CR, NL>>)
    ELSE IF name = NameSB THEN ("f" :> <<"b", NL>>)
    ELSE ("f" :> <<"a">>)

Paths == {"f", "g"}

\* a branch is the sequence of the trees of its commits, oldest first
Tip(history) == history[Len(history)]

NoWorkspace == [exists |-> FALSE, head |-> "", branches |-> <<>>, wt |-> EmptyTree]
InitRemote(name) ==
    [branches |-> (DefaultBranch(name) :> <<UpstreamTree(name)>>), pulls |-> <<>>]

\* ------------------------------------------------------------------ state

VARIABLES
    org,            \* repositories of the organization, in listing order
    repo_list, repo_regex, repo_topic, ignore_repos,
    branch_name, target_file, target, replacement, pr,
    pc,             \* position of the running invocation
    run,            \* number of the running invocation
    repo_names,     \* main: the selected repositories
    idx,            \* main: position of the for loop in repo_names
    results,        \* main: the accumulated result list
    base_branch,    \* update_repo: remote_repo.default_branch
    file_paths,     \* update_repo: the change set
    local,          \* work_dir: the clone of each repository
    remote,         \* the hosting service: branches and pull requests
    outcomes,       \* how each finished call of update_repo returned
    error,          \* the step whose exception ended the invocation, if any
    calls,          \* network calls made by the running invocation
    bpc,            \* bump-repo-version-tags: position of the run
    active_branch,  \* bump-repo-version-tags: repo.active_branch.name
    increment,      \* bump-repo-version-tags: the increment argument
    tags,           \* bump-repo-version-tags: repo.tags, name -> commit
    origin_tags,    \* bump-repo-version-tags: the tags of the remote origin
    new_version_list, \* main: the incremented version
    pending,        \* main: the tags create_tag is still to be called for
    tag_log,        \* the tag operations done so far, in order
    tags_before     \* the tags of both sides when the run started

args == <<org, repo_list, repo_regex, repo_topic, ignore_repos,
          branch_name, target_file, target, replacement>>
frame == <<base_branch, file_paths>>
world == <<local, remote>>
bump == <<bpc, active_branch, increment, tags, origin_tags, new_version_list,
          pending, tag_log, tags_before>>
updater == <<args, pr, pc, run, repo_names, idx, results, frame, world, outcomes,
             error, calls>>
vars == <<updater, bump>>

\* update-repos.py runs: the tag script is not running
BumpIdle ==
    /\ bpc = "idle"
    /\ active_branch = "master"
    /\ increment = "PATCH"
    /\ tags = <<>>
    /\ origin_tags = <<>>
    /\ new_version_list = <<>>
    /\ pending = <<>>
    /\ tag_log = <<>>
    /\ tags_before = [local |-> <<>>, origin |-> <<>>]

\* ------------------------------------------------------------------ selection

\* the selection check without the test of line 127
ModeErrorMissingOnly ==
    ~Truthy(repo_regex) /\ ~Truthy(repo_topic) /\ repo_list = <<>>

\* main, lines 124-131: the three ValueError checks
ModeError ==
    \/ ~Truthy(repo_regex) /\ ~Truthy(repo_topic) /\ repo_list = <<>>
    \/ repo_list # <<>> /\ (Truthy(repo_regex) \/ Truthy(repo_topic))
BranchError == branch_name = "master" \/ branch_name = "main"
ConfigError == ModeError \/ BranchError

\* the loop body without the test of line 34
KeepRepoNoIgnore(name, regex, topic, ignore) ==
    (IF Truthy(regex) /\ Contains(name, regex) THEN <<name>> ELSE <<>>)
        \o (IF Truthy(topic) /\ topic \in Topics(name) THEN <<name>> ELSE <<>>)

\* the names one repository of the listing adds to repos (lines 34-39)
KeepRepo(name, regex, topic, ignore) ==
    IF name \in ignore THEN <<>>
    ELSE (IF Truthy(regex) /\ Contains(name, regex) THEN <<name>> ELSE <<>>)
         \o (IF Truthy(topic) /\ topic \in Topics(name) THEN <<name>> ELSE <<>>)

RECURSIVE ScanRepos(_, _, _, _)
ScanRepos(all_repos, regex, topic, ignore) ==
    IF all_repos = <<>> THEN <<>>
    ELSE KeepRepo(Head(all_repos), regex, topic, ignore)
             \o ScanRepos(Tail(all_repos), regex, topic, ignore)

get_repo_names(list, regex, topic, ignore) ==
    IF list # <<>> THEN list ELSE ScanRepos(org, regex, topic, ignore)

Goto(label) == pc' = label /\ error' = error

\* an exception nothing catches ends the process
Crash(step) == pc' = "crashed" /\ error' = step

Validate ==
    /\ pc = "validate"
    /\ Goto(IF ConfigError THEN "aborted" ELSE "select")
    /\ UNCHANGED <<bump, args, pr, run, repo_names, idx, results, frame, world, outcomes, calls>>

\* main, line 135; the listing of the organization is a network call and
\* nothing catches its failure
Select ==
    /\ pc = "select"
    /\ calls' = IF repo_list # <<>> THEN calls ELSE calls \cup {<<"get_repos", <<>>>>}
    /\ \/ /\ repo_names' = get_repo_names(repo_list, repo_regex, repo_topic, ignore_repos)
          /\ idx' = 1
          /\ Goto("loop")
       \/ /\ repo_list = <<>>
          /\ Crash("get_repos")
          /\ UNCHANGED <<repo_names, idx>>
    /\ UNCHANGED <<bump, args, pr, run, results, frame, world, outcomes>>

\* ------------------------------------------------------------------ git

\* the content of a path as an option: <<>> when the path does not exist
At(tree, path) == IF HasFile(tree, path) THEN <<tree[path]>> ELSE <<>>

TreeOf(opt) ==
    LET dom == {p \in DOMAIN opt : opt[p] # <<>>}
    IN  [p \in dom |-> opt[p][1]]

HeadTree(ws) == Tip(ws.branches[ws.head])
Dirty(ws) == ws.wt # HeadTree(ws)

\* git checkout <b>: local modifications are carried over unless they touch
\* a path that differs between the two branches
CanCheckout(ws, b) ==
    /\ b \in DOMAIN ws.branches
    /\ \A p \in Paths :
          At(ws.wt, p) # At(HeadTree(ws), p)
              => At(HeadTree(ws), p) = At(Tip(ws.branches[b]), p)

GitCheckout(ws, b) ==
    LET cur == HeadTree(ws)
        tgt == Tip(ws.branches[b])
        opt == [p \in Paths |->
                   IF At(ws.wt, p) # At(cur, p) THEN At(ws.wt, p) ELSE At(tgt, p)]
    IN  [ws EXCEPT !.head = b, !.wt = TreeOf(opt)]

\* a reset that moves the branch and keeps the working tree
GitResetSoft(ws, history) ==
    [ws EXCEPT !.branches = (ws.head :> history) @@ ws.branches]

\* git reset --hard <history>: the current branch and the working tree
GitResetHard(ws, history) ==
    [ws EXCEPT !.branches = (ws.head :> history) @@ ws.branches,
               !.wt = Tip(history)]

\* git.Repo.clone_from: a workspace on the default branch of the remote
GitClone(name) ==
    [exists |-> TRUE,
     head |-> DefaultBranch(name),
     branches |-> (DefaultBranch(name) :> remote[name].branches[DefaultBranch(name)]),
     wt |-> Tip(remote[name].branches[DefaultBranch(name)])]

\* Repo.create_head(b) of GitPython: refuses a branch that exists and points
\* to another commit than HEAD, otherwise (re)sets it to HEAD
CanCreateHead(ws, b) ==
    b \in DOMAIN ws.branches => ws.branches[b] = ws.branches[ws.head]

GitCreateHead(ws, b) ==
    [ws EXCEPT !.branches = (b :> ws.branches[ws.head]) @@ ws.branches]

\* git commit -a: records the working tree on the current branch
GitCommit(ws) ==
    [ws EXCEPT !.branches =
        (ws.head :> Append(ws.branches[ws.head], ws.wt)) @@ ws.branches]

IsPrefix(s, t) == Len(s) <= Len(t) /\ SubSeq(t, 1, Len(s)) = s

\* git push of the current branch: the remote accepts a new branch or a
\* fast-forward
CanPush(ws, rem) ==
    ws.head \in DOMAIN rem.branches
        => IsPrefix(rem.branches[ws.head], ws.branches[ws.head])

\* create_pull: the hosting service refuses a pull request whose head is its
\* base, whose head branch is not on the remote, or that is already open
CanCreatePull(rem, head, base) ==
    /\ head # base
    /\ head \in DOMAIN rem.branches
    /\ base \in DOMAIN rem.branches
    /\ rem.branches[head] # rem.branches[base]
    /\ \A i \in 1..Len(rem.pulls) : rem.pulls[i] # [head |-> head, base |-> base]

\* ------------------------------------------------------------------ update_repo

repo_name == repo_names[idx]
repo == local[repo_name]
remote_repo == remote[repo_name]

\* the call of update_repo returns `value` to main (lines 143-148)
Return(status, value) ==
    /\ outcomes' = Append(outcomes, [run |-> run, repo |-> repo_name, status |-> status])
    /\ results' = results \o value
    /\ idx' = idx + 1
    /\ Goto("loop")

\* main, line 142
Loop ==
    /\ pc = "loop"
    /\ Goto(IF idx <= Len(repo_names) THEN "get_repo" ELSE "summary")
    /\ UNCHANGED <<bump, args, pr, run, repo_names, idx, results, frame, world, outcomes, calls>>

\* lines 61-66
GetRepo ==
    /\ pc = "get_repo"
    /\ calls' = calls \cup {<<"get_repo", repo_name>>}
    /\ \/ /\ base_branch' = DefaultBranch(repo_name)
          /\ Goto(IF repo.exists THEN "checkout" ELSE "clone")
       \/ /\ Crash("get_repo")
          /\ UNCHANGED base_branch
    /\ UNCHANGED <<bump, args, pr, run, repo_names, idx, results, file_paths, world, outcomes>>

\* line 67
Checkout ==
    /\ pc = "checkout"
    /\ IF CanCheckout(repo, base_branch)
       THEN /\ local' = [local EXCEPT ![repo_name] = GitCheckout(repo, base_branch)]
            /\ Goto("reset")
       ELSE /\ Crash("checkout")
            /\ UNCHANGED local
    /\ UNCHANGED <<bump, args, pr, run, repo_names, idx, results, frame, remote, outcomes, calls>>

\* line 68
Reset ==
    /\ pc = "reset"
    /\ local' = [local EXCEPT ![repo_name] =
                    GitResetHard(repo, remote[repo_name].branches[base_branch])]
    /\ Goto("pull")
    /\ UNCHANGED <<bump, args, pr, run, repo_names, idx, results, frame, remote, outcomes, calls>>

\* line 69: the local branch already is the remote one, so a pull that
\* succeeds changes nothing
Pull ==
    /\ pc = "pull"
    /\ calls' = calls \cup {<<"pull", repo_name>>}
    /\ \/ Goto("locate")
       \/ Crash("pull")
    /\ UNCHANGED <<bump, args, pr, run, repo_names, idx, results, frame, world, outcomes>>

\* lines 71-73
Clone ==
    /\ pc = "clone"
    /\ calls' = calls \cup {<<"clone", repo_name>>}
    /\ \/ /\ local' = [local EXCEPT ![repo_name] = GitClone(repo_name)]
          /\ Goto("locate")
       \/ /\ Crash("clone")
          /\ UNCHANGED local
    /\ UNCHANGED <<bump, args, pr, run, repo_names, idx, results, frame, remote, outcomes>>

\* the paths `ag -l target` prints: the files whose content matches
get_file_paths(tree, t) == {p \in DOMAIN tree : Contains(tree[p], t)}

\* the orders in which the paths of S can be printed
Orders(S) ==
    {s \in [1..Cardinality(S) -> S] : \A i, j \in 1..Cardinality(S) : s[i] = s[j] => i = j}

\* a locate step without the early return for an empty search result
LocateNoEarlyReturn ==
    /\ pc = "locate"
    /\ IF target_file # ""
       THEN file_paths' = <<target_file>>
       ELSE file_paths' \in Orders(get_file_paths(repo.wt, target))
    /\ Goto("mutate")
    /\ UNCHANGED <<idx, results, outcomes>>
    /\ UNCHANGED <<bump, args, pr, run, repo_names, base_branch, world, calls>>

\* lines 75-82
Locate ==
    /\ pc = "locate"
    /\ IF target_file # ""
       THEN /\ file_paths' = <<target_file>>
            /\ Goto("mutate")
            /\ UNCHANGED <<idx, results, outcomes>>
       ELSE IF get_file_paths(repo.wt, target) = {}
       THEN /\ Return("NoMatch", <<>>)
            /\ UNCHANGED file_paths
       ELSE /\ file_paths' \in Orders(get_file_paths(repo.wt, target))
            /\ Goto("mutate")
            /\ UNCHANGED <<idx, results, outcomes>>
    /\ UNCHANGED <<bump, args, pr, run, repo_names, base_branch, world, calls>>

\* a rewrite loop that a missing file ends
RECURSIVE UpdateFilesUntilMissing(_, _, _, _)
UpdateFilesUntilMissing(tree, paths, t, r) ==
    IF paths = <<>> \/ ~HasFile(tree, Head(paths)) THEN tree
    ELSE UpdateFilesUntilMissing(update_file(tree, Head(paths), t, r), Tail(paths), t, r)

\* a rewrite of every file of the tree, whatever the change set
UpdateAllFiles(tree, paths, t, r) ==
    [p \in DOMAIN tree |-> RewriteContent(tree[p], t, r)]

RECURSIVE UpdateFiles(_, _, _, _)
UpdateFiles(tree, paths, t, r) ==
    IF paths = <<>> THEN tree
    ELSE UpdateFiles(update_file(tree, Head(paths), t, r), Tail(paths), t, r)

\* lines 84-88
Mutate ==
    /\ pc = "mutate"
    /\ local' = [local EXCEPT ![repo_name].wt =
                    UpdateFiles(repo.wt, file_paths, target, replacement)]
    /\ Goto("create_head")
    /\ UNCHANGED <<bump, args, pr, run, repo_names, idx, results, frame, remote, outcomes, calls>>

\* line 90
CreateHead ==
    /\ pc = "create_head"
    /\ IF CanCreateHead(repo, branch_name)
       THEN /\ local' = [local EXCEPT ![repo_name] = GitCreateHead(repo, branch_name)]
            /\ Goto("checkout_branch")
       ELSE /\ Crash("create_head")
            /\ UNCHANGED local
    /\ UNCHANGED <<bump, args, pr, run, repo_names, idx, results, frame, remote, outcomes, calls>>

\* line 91
CheckoutBranch ==
    /\ pc = "checkout_branch"
    /\ IF CanCheckout(repo, branch_name)
       THEN /\ local' = [local EXCEPT ![repo_name] = GitCheckout(repo, branch_name)]
            /\ Goto("commit")
       ELSE /\ Crash("checkout_branch")
            /\ UNCHANGED local
    /\ UNCHANGED <<bump, args, pr, run, repo_names, idx, results, frame, remote, outcomes, calls>>

\* the value of line 103
ChangedFiles(name, paths) ==
    [i \in 1..Len(paths) |-> [repo |-> name, path |-> paths[i]]]

\* a commit step that publishes whatever the flag says
CommitAlwaysPublish ==
    /\ pc = "commit"
    /\ \/ /\ Dirty(repo)
          /\ local' = [local EXCEPT ![repo_name] = GitCommit(repo)]
          /\ Goto("push")
          /\ UNCHANGED <<idx, results, outcomes>>
       \/ /\ Return("NoOpCommit", <<>>)
          /\ UNCHANGED local
    /\ UNCHANGED <<bump, args, pr, run, repo_names, frame, remote, calls>>

\* lines 93-103: git refuses a commit without changes, and may refuse one
\* with changes (no identity, a hook); both raise GitCommandError
Commit ==
    /\ pc = "commit"
    /\ \/ /\ Dirty(repo)
          /\ local' = [local EXCEPT ![repo_name] = GitCommit(repo)]
          /\ IF pr
             THEN /\ Goto("push")
                  /\ UNCHANGED <<idx, results, outcomes>>
             ELSE Return("Committed", ChangedFiles(repo_name, file_paths))
       \/ /\ Return("NoOpCommit", <<>>)
          /\ UNCHANGED local
    /\ UNCHANGED <<bump, args, pr, run, repo_names, frame, remote, calls>>

\* line 108, then the sleep of line 109
Push ==
    /\ pc = "push"
    /\ calls' = calls \cup {<<"push", repo_name>>}
    /\ \/ /\ CanPush(repo, remote_repo)
          /\ remote' = [remote EXCEPT ![repo_name].branches =
                           (repo.head :> repo.branches[repo.head]) @@ @]
          /\ Goto("create_pull")
       \/ /\ Crash("push")
          /\ UNCHANGED remote
    /\ UNCHANGED <<bump, args, pr, run, repo_names, idx, results, frame, local, outcomes>>

\* lines 110-117
CreatePull ==
    /\ pc = "create_pull"
    /\ calls' = calls \cup {<<"create_pull", repo_name>>}
    /\ \/ /\ CanCreatePull(remote_repo, branch_name, base_branch)
          /\ remote' = [remote EXCEPT ![repo_name].pulls =
                           Append(@, [head |-> branch_name, base |-> base_branch])]
          /\ Return("PRCreated",
                    <<[repo |-> repo_name, pull |-> Len(remote_repo.pulls) + 1]>>)
       \/ /\ Crash("create_pull")
          /\ UNCHANGED <<remote, idx, results, outcomes>>
    /\ UNCHANGED <<bump, args, pr, run, repo_names, frame, local>>

\* main, lines 150-162
Summary ==
    /\ pc = "summary"
    /\ Goto("done")
    /\ UNCHANGED <<bump, args, pr, run, repo_names, idx, results, frame, world, outcomes, calls>>

\* the same command is run again on the same work_dir, with --pr added or not
Rerun ==
    /\ pc \in {"done", "crashed"}
    /\ run < MaxRuns
    /\ run' = run + 1
    /\ pr' \in {pr, TRUE}
    /\ pc' = "validate"
    /\ error' = ""
    /\ repo_names' = <<>>
    /\ idx' = 0
    /\ results' = <<>>
    /\ base_branch' = ""
    /\ file_paths' = <<>>
    /\ calls' = {}
    /\ UNCHANGED <<bump, args, world, outcomes>>

\* ------------------------------------------------------------------ specifications

Fresh ==
    /\ pc = "validate"
    /\ run = 1
    /\ repo_names = <<>>
    /\ idx = 0
    /\ results = <<>>
    /\ base_branch = ""
    /\ file_paths = <<>>
    /\ local = [n \in AllNames |-> NoWorkspace]
    /\ remote = [n \in AllNames |-> InitRemote(n)]
    /\ outcomes = <<>>
    /\ error = ""
    /\ calls = {}
    /\ BumpIdle

Init ==
    /\ org = <<NameSA, NameSB, NameC>>
    /\ repo_list \in {<<>>, <<NameSA, NameSB>>}
    /\ repo_regex \in {<<>>, <<"s">>}
    /\ repo_topic \in {<<>>, <<"t">>}
    /\ ignore_repos \in {{}, {NameSB}}
    /\ branch_name \in {"topic", "master", "main", "develop"}
    /\ target_file \in {"", "g"}
    /\ target = <<"a">>
    /\ replacement \in {<<"a">>, <<"b">>}
    /\ pr \in BOOLEAN
    /\ Fresh

Next ==
    \/ Validate
    \/ Select
    \/ Loop
    \/ GetRepo
    \/ Checkout
    \/ Reset
    \/ Pull
    \/ Clone
    \/ Locate
    \/ Mutate
    \/ CreateHead
    \/ CheckoutBranch
    \/ Commit
    \/ Push
    \/ CreatePull
    \/ Summary
    \/ Rerun

Spec == Init /\ [][Next]_vars

\* ---- selection alone, over every listing order and rule

Listings ==
    {s \in StringsUpTo(AllNames, Cardinality(AllNames)) :
        \A i, j \in 1..Len(s) : s[i] = s[j] => i = j}

InitSelect ==
    /\ org \in Listings
    /\ repo_list \in StringsUpTo(AllNames, MaxList)
    /\ repo_regex \in {<<>>, <<"s">>, <<"a">>, <<"s", "a">>, <<"c">>}
    /\ repo_topic \in {<<>>, <<"t">>, <<"u">>}
    /\ ignore_repos \in SUBSET AllNames
    /\ branch_name \in {"topic", "main"}
    /\ target_file = ""
    /\ target = <<"a">>
    /\ replacement = <<"b">>
    /\ pr = FALSE
    /\ Fresh

NextSelect ==
    \/ Validate
    \/ Select

SpecSelect == InitSelect /\ [][NextSelect]_vars

\* ---- the mutation step and what follows it, over every content, target and
\* replacement: update_repo has cloned a repository whose file "f" holds
\* `content` and stands before the loop of line 84, either with target_file
\* "f" or with the result of a search that also listed an untracked path "g"
\* that is gone by the time of the rewrite

SubstRemote(content) == [branches |-> ("main" :> <<("f" :> content)>>), pulls |-> <<>>]
SubstLocal(content) ==
    [exists |-> TRUE, head |-> "main",
     branches |-> ("main" :> <<("f" :> content)>>), wt |-> ("f" :> content)]

InitSubst ==
    /\ org = <<NameSB>>
    /\ repo_list = <<NameSB>>
    /\ repo_regex = <<>>
    /\ repo_topic = <<>>
    /\ ignore_repos = {}
    /\ branch_name = "topic"
    /\ target \in StringsUpTo(PatChars, MaxPat)
    /\ replacement \in StringsUpTo(PatChars, MaxPat)
    /\ pr = FALSE
    /\ pc = "mutate"
    /\ run = 1
    /\ repo_names = <<NameSB>>
    /\ idx = 1
    /\ results = <<>>
    /\ base_branch = "main"
    /\ \E content \in StringsUpTo(Chars, MaxLen) :
          /\ \/ /\ target_file = "f"
                /\ file_paths = <<"f">>
             \/ /\ target_file = ""
                /\ Contains(content, target)
                /\ file_paths \in Orders({"f", "g"})
          /\ local = [n \in AllNames |->
                         IF n = NameSB THEN SubstLocal(content) ELSE NoWorkspace]
          /\ remote = [n \in AllNames |->
                         IF n = NameSB THEN SubstRemote(content) ELSE InitRemote(n)]
    /\ outcomes = <<>>
    /\ error = ""
    /\ calls = {<<"get_repo", NameSB>>, <<"clone", NameSB>>}
    /\ BumpIdle

NextSubst ==
    \/ Mutate
    \/ CreateHead
    \/ CheckoutBranch
    \/ Commit

SpecSubst == InitSubst /\ [][NextSubst]_vars

\* ------------------------------------------------------------------ version tags
\* bump-repo-version-tags.py. A tag name is the sequence of its dot-separated
\* numbers ("1.0" is <<1, 0>>): ".".join and split(".") of lines 39 and 76-78
\* are the two directions of that reading. A tag points to the commit "old"
\* or to "head", the current commit.

\* the tag names a repository may hold when the script starts
TagUniverse == {<<1>>, <<1, 0>>, <<1, 1>>, <<1, 0, 0>>, <<1, 0, 0, 1>>}
Increments == {"PATCH", "MINOR", "MAJOR"}

\* line 31: re.match anchors the pattern at the start of the name only, so a
\* name with at least three numeric components matches
MatchesVersionPattern(name) == Len(name) >= 3

\* component i of a release, missing components read as zero
Component(v, i) == IF i <= Len(v) THEN v[i] ELSE 0

\* parse_version(a) > parse_version(b) for plain releases
VersionGreater(a, b) ==
    LET n == IF Len(a) > Len(b) THEN Len(a) ELSE Len(b)
    IN  \E i \in 1..n :
            /\ Component(a, i) > Component(b, i)
            /\ \A j \in 1..(i - 1) : Component(a, j) = Component(b, j)

\* lines 26-41: the greatest matching tag, 0.0.0 without one; base_version
\* keeps every component of the release
get_latest_version(names) ==
    LET candidates == {n \in names : MatchesVersionPattern(n)} \cup {<<0, 0, 0>>}
    IN  CHOOSE v \in candidates : \A w \in candidates : ~VersionGreater(w, v)

\* lines 43-54
increment_version(version_list, inc) ==
    IF inc = "PATCH" THEN [version_list EXCEPT ![3] = @ + 1]
    ELSE IF inc = "MINOR" THEN [version_list EXCEPT ![2] = @ + 1, ![3] = 0]
    ELSE [version_list EXCEPT ![1] = @ + 1, ![2] = 0, ![3] = 0]

\* lines 76-78
patch_tag(version_list) == version_list
minor_tag(version_list) == SubSeq(version_list, 1, 2)
major_tag(version_list) == <<version_list[1]>>

Without(f, name) == [n \in DOMAIN f \ {name} |-> f[n]]
Logged(op, name) == tag_log' = Append(tag_log, <<op, name>>)

\* lines 15-24: the branch test, then git pull --tags, which brings every
\* tag of the remote into the repository and may fail
prepare_repo ==
    /\ bpc = "prepare"
    /\ IF active_branch # "master"
       THEN /\ bpc' = "failed"
            /\ UNCHANGED tags
       ELSE \/ /\ tags' = tags @@ origin_tags
               /\ bpc' = "latest"
            \/ /\ bpc' = "failed"
               /\ UNCHANGED tags
    /\ UNCHANGED <<updater, active_branch, increment, origin_tags, new_version_list,
                   pending, tag_log, tags_before>>

\* main, lines 72-78
NewVersion ==
    /\ bpc = "latest"
    /\ LET version_list == increment_version(get_latest_version(DOMAIN tags), increment)
       IN  /\ new_version_list' = version_list
           /\ pending' = <<patch_tag(version_list), minor_tag(version_list),
                           major_tag(version_list)>>
    /\ bpc' = "delete_tag"
    /\ UNCHANGED <<updater, active_branch, increment, tags, origin_tags, tag_log,
                   tags_before>>

\* create_tag, line 59: delete_tag raises for a tag the repository does not
\* have, and the bare except of lines 61-62 then skips line 60
DeleteTag ==
    /\ bpc = "delete_tag"
    /\ IF Head(pending) \in DOMAIN tags
       THEN /\ tags' = Without(tags, Head(pending))
            /\ Logged("delete_local", Head(pending))
            /\ bpc' = "push_delete"
       ELSE /\ bpc' = "create_tag"
            /\ UNCHANGED <<tags, tag_log>>
    /\ UNCHANGED <<updater, active_branch, increment, origin_tags, new_version_list,
                   pending, tags_before>>

\* create_tag, line 60: the push of the empty reference deletes the tag of
\* the remote; a failure is swallowed by the except of lines 61-62
PushDelete ==
    /\ bpc = "push_delete"
    /\ \/ /\ Head(pending) \in DOMAIN origin_tags
          /\ origin_tags' = Without(origin_tags, Head(pending))
          /\ Logged("delete_remote", Head(pending))
       \/ /\ Head(pending) \notin DOMAIN origin_tags
          /\ UNCHANGED <<origin_tags, tag_log>>
       \/ /\ Head(pending) \in DOMAIN origin_tags
          /\ Logged("failed", Head(pending))
          /\ UNCHANGED origin_tags
    /\ bpc' = "create_tag"
    /\ UNCHANGED <<updater, active_branch, increment, tags, new_version_list, pending,
                   tags_before>>

\* create_tag, line 64: a tag on the current commit
CreateTag ==
    /\ bpc = "create_tag"
    /\ tags' = (Head(pending) :> "head") @@ tags
    /\ Logged("create", Head(pending))
    /\ bpc' = "push_tag"
    /\ UNCHANGED <<updater, active_branch, increment, origin_tags, new_version_list,
                   pending, tags_before>>

\* create_tag, line 65, and the return to main: the remote takes a new tag,
\* refuses one it holds at another commit (push reports that without
\* raising), or cannot be reached (push raises)
PushTag ==
    /\ bpc = "push_tag"
    /\ \/ /\ Head(pending) \in DOMAIN origin_tags
             => origin_tags[Head(pending)] = tags[Head(pending)]
          /\ origin_tags' = (Head(pending) :> tags[Head(pending)]) @@ origin_tags
          /\ Logged("push", Head(pending))
          /\ pending' = Tail(pending)
          /\ bpc' = IF Tail(pending) = <<>> THEN "done" ELSE "delete_tag"
       \/ /\ Head(pending) \in DOMAIN origin_tags
          /\ origin_tags[Head(pending)] # tags[Head(pending)]
          /\ Logged("failed", Head(pending))
          /\ pending' = Tail(pending)
          /\ bpc' = IF Tail(pending) = <<>> THEN "done" ELSE "delete_tag"
          /\ UNCHANGED origin_tags
       \/ /\ bpc' = "failed"
          /\ UNCHANGED <<origin_tags, pending, tag_log>>
    /\ UNCHANGED <<updater, active_branch, increment, tags, new_version_list, tags_before>>

\* the tag script is started in a repository; update-repos.py is not running
InitTags ==
    /\ org = <<>>
    /\ repo_list = <<>>
    /\ repo_regex = <<>>
    /\ repo_topic = <<>>
    /\ ignore_repos = {}
    /\ branch_name = ""
    /\ target_file = ""
    /\ target = <<>>
    /\ replacement = <<>>
    /\ pr = FALSE
    /\ pc = "idle"
    /\ run = 1
    /\ repo_names = <<>>
    /\ idx = 0
    /\ results = <<>>
    /\ base_branch = ""
    /\ file_paths = <<>>
    /\ local = [n \in AllNames |-> NoWorkspace]
    /\ remote = [n \in AllNames |-> InitRemote(n)]
    /\ outcomes = <<>>
    /\ error = ""
    /\ calls = {}
    /\ bpc = "prepare"
    /\ active_branch \in {"master", "topic"}
    /\ increment \in Increments
    /\ \E here \in SUBSET TagUniverse, there \in SUBSET TagUniverse :
          /\ tags = [n \in here |-> "old"]
          /\ origin_tags = [n \in there |-> "old"]
          /\ tags_before = [local |-> [n \in here |-> "old"],
                            origin |-> [n \in there |-> "old"]]
    /\ new_version_list = <<>>
    /\ pending = <<>>
    /\ tag_log = <<>>

NextTags ==
    \/ prepare_repo
    \/ NewVersion
    \/ DeleteTag
    \/ PushDelete
    \/ CreateTag
    \/ PushTag

SpecTags == InitTags /\ [][NextTags]_vars

\* ------------------------------------------------------------------ properties

Range(seq) == {seq[i] : i \in 1..Len(seq)}

\* r is a contiguous part of s, said without OccursAt
IsSubstring(s, r) ==
    \E a \in 0..Len(s) : \E b \in a..Len(s) : SubSeq(s, a + 1, b) = r

Untouched ==
    /\ calls = {}
    /\ repo_names = <<>>
    /\ results = <<>>
    /\ local = [n \in AllNames |-> NoWorkspace]
    /\ remote = [n \in AllNames |-> InitRemote(n)]

\* the outcomes recorded by the running invocation
RunOutcomes == SelectSeq(outcomes, LAMBDA o : o.run = run)

PerRepoErrors ==
    {"clone", "checkout", "pull", "create_head", "checkout_branch", "push", "create_pull"}

\* C1: a hard error in the pipeline of one repository does not end the run:
\* an invocation never stops on such an error, and when it has ended every
\* selected repository has an outcome.
C1_EveryRepoReachesOutcome ==
    /\ pc = "crashed" => error \notin PerRepoErrors
    /\ pc \in {"done", "crashed"} /\ error \in PerRepoErrors \cup {""}
          => Len(RunOutcomes) = Len(repo_names)

ProcessedBefore(n) ==
    \E i \in 1..Len(outcomes) : outcomes[i].repo = n /\ outcomes[i].run < run

\* C2: a later run on the same work_dir, with the same target, replacement
\* and branch name, ends for every repository an earlier run processed in
\* NoMatch or NoOpCommit, and never in an error of the pipeline's own git
\* steps.
C2_RerunIsIdempotent ==
    /\ \A i \in 1..Len(outcomes) :
          (\E j \in 1..Len(outcomes) :
              outcomes[j].repo = outcomes[i].repo /\ outcomes[j].run < outcomes[i].run)
          => outcomes[i].status \in {"NoMatch", "NoOpCommit"}
    /\ pc = "crashed" /\ error \in {"checkout", "create_head", "checkout_branch"}
          => ~ProcessedBefore(repo_name)

\* C3: an archived repository is never cloned and its pipeline ends in
\* SkippedArchived.
C3_ArchivedSkipped ==
    \A n \in AllNames :
        Archived(n) =>
            /\ ~local[n].exists
            /\ \A i \in 1..Len(outcomes) :
                  outcomes[i].repo = n => outcomes[i].status = "SkippedArchived"

\* C4: no branch is created, checked out or committed to under the name
\* "master", "main" or the default branch of the repository.
C4_ProtectedBranchRejected ==
    pc \in {"checkout_branch", "commit", "push", "create_pull"}
        => branch_name \notin {"master", "main", DefaultBranch(repo_name)}

BothModes == repo_list # <<>> /\ (repo_regex # <<>> \/ repo_topic # <<>>)
NoMode == repo_list = <<>> /\ repo_regex = <<>> /\ repo_topic = <<>>

\* C5: with an explicit list together with a rule, or with none of the
\* three, the invocation stops in validation: nothing is listed, cloned,
\* rewritten, branched, committed, pushed or opened.
C5_BadSelectionModeAborts ==
    BothModes \/ NoMode => pc \in {"validate", "aborted"} /\ Untouched

C5_Witness == pc = "aborted" /\ BothModes /\ branch_name = "topic"

\* C6: no selected name is in the ignore set, in list mode and in rule mode.
C6_IgnoredNeverSelected ==
    pc = "loop" => Range(repo_names) \cap ignore_repos = {}

Matches(n) ==
    \/ repo_regex # <<>> /\ IsSubstring(n, repo_regex)
    \/ repo_topic # <<>> /\ repo_topic \in Topics(n)

C8_SelectionUniqueOrdered ==
    pc = "loop" /\ repo_list = <<>>
        => /\ \A i, j \in 1..Len(repo_names) : repo_names[i] = repo_names[j] => i = j
           /\ \A i, j \in 1..Len(repo_names) :
                 i < j => \E a, b \in 1..Len(org) :
                             a < b /\ org[a] = repo_names[i] /\ org[b] = repo_names[j]

\* C9: Committed (or a pull request) is reported only for a commit whose
\* tree differs from the branch point, and never when the target equals the
\* replacement.
C9_EqualStringsNeverCommit ==
    /\ pc = "push" =>
          LET h == repo.branches[branch_name]
          IN  Len(h) >= 2 /\ h[Len(h)] # h[Len(h) - 1]
    /\ \A i \in 1..Len(outcomes) :
          outcomes[i].status \in {"Committed", "PRCreated"} => target # replacement

\* ---- substitution

SubstOld == Tip(remote[NameSB].branches["main"])["f"]
SubstNew == local[NameSB].wt["f"]
Mutated == pc = "create_head"

\* number of positions at which t occurs in s
NumOcc(s, t) == Cardinality({i \in 1..(Len(s) + 1) : OccursAt(s, t, i)})
NumChar(s, c) == Cardinality({i \in 1..Len(s) : s[i] = c})

\* number of occurrences of a non-empty t met when s is read left to right
\* and an occurrence is skipped once it is met
RECURSIVE GreedyCount(_, _)
GreedyCount(s, t) ==
    IF Len(s) < Len(t) THEN 0
    ELSE IF SubSeq(s, 1, Len(t)) = t
         THEN 1 + GreedyCount(SubSeq(s, Len(t) + 1, Len(s)), t)
         ELSE GreedyCount(Tail(s), t)

\* n is o with some occurrences of the non-empty t turned into r and every
\* other character kept
RECURSIVE Substituted(_, _, _, _)
Substituted(o, n, t, r) ==
    IF o = <<>> THEN n = <<>>
    ELSE \/ /\ n # <<>>
            /\ Head(o) = Head(n)
            /\ Substituted(Tail(o), Tail(n), t, r)
         \/ /\ OccursAt(o, t, 1)
            /\ OccursAt(n, r, 1)
            /\ Substituted(SubSeq(o, Len(t) + 1, Len(o)),
                           SubSeq(n, Len(r) + 1, Len(n)), t, r)

\* s with every line terminator "\r\n" or "\r" written as "\n"
RECURSIVE LfOnly(_)
LfOnly(s) ==
    IF s = <<>> THEN <<>>
    ELSE IF Head(s) = CR
         THEN IF Len(s) >= 2 /\ s[2] = NL
              THEN <<NL>> \o LfOnly(SubSeq(s, 3, Len(s)))
              ELSE <<NL>> \o LfOnly(Tail(s))
         ELSE <<Head(s)>> \o LfOnly(Tail(s))

LineBreaks == {NL, CR}

\* C10 as stated: when the target is not a substring of the replacement, the
\* mutated file has no occurrence of the target, an occurrence of the
\* (non-empty) replacement for each original occurrence of the target, the
\* same line boundaries, and is unchanged outside the replaced occurrences.
C10_LiteralExhaustive ==
    Mutated /\ ~IsSubstring(replacement, target)
        => /\ ~IsSubstring(SubstNew, target)
           /\ replacement # <<>>
                 => NumOcc(SubstNew, replacement) >= GreedyCount(SubstOld, target)
           /\ NumChar(SubstNew, NL) = NumChar(SubstOld, NL)
           /\ NumChar(SubstNew, CR) = NumChar(SubstOld, CR)
           /\ Substituted(SubstOld, SubstNew, target, replacement)

PlainPattern ==
    /\ target # <<>>
    /\ Range(target) \cap LineBreaks = {}
    /\ Range(replacement) \cap LineBreaks = {}

DisjointPattern ==
    /\ PlainPattern
    /\ replacement # <<>>
    /\ Range(target) \cap Range(replacement) = {}

\* What update_file does guarantee.  For a non-empty target and a
\* replacement, both without line break, the mutated file is the original,
\* its line terminators written as "\n", with the occurrences of the target
\* met from left to right turned into the replacement and nothing else
\* changed, and it has as many lines; when the replacement is non-empty and
\* shares no character with the target, the mutated file has no occurrence
\* of the target and at least one occurrence of the replacement for each
\* replaced occurrence.
RewriteIsLiteralPerLine ==
    Mutated =>
        /\ PlainPattern =>
              /\ Substituted(LfOnly(SubstOld), SubstNew, target, replacement)
              /\ Len(SubstNew) = Len(LfOnly(SubstOld))
                    + GreedyCount(LfOnly(SubstOld), target) * (Len(replacement) - Len(target))
              /\ NumChar(SubstNew, NL) = NumChar(LfOnly(SubstOld), NL)
              /\ NumChar(SubstNew, CR) = 0
        /\ DisjointPattern =>
              /\ ~IsSubstring(SubstNew, target)
              /\ NumOcc(SubstNew, replacement) >= GreedyCount(LfOnly(SubstOld), target)

\* ---- results and publishing

\* the repositories for which the running invocation recorded `status`
WithStatus(status) ==
    {outcomes[i].repo : i \in {k \in 1..Len(outcomes) :
                                  outcomes[k].run = run /\ outcomes[k].status = status}}

\* the paths whose content the last commit of the topic branch changed
ChangedPaths(n) ==
    LET h == local[n].branches[branch_name]
    IN  IF Len(h) < 2 THEN {}
        ELSE {p \in Paths : At(h[Len(h)], p) # At(h[Len(h) - 1], p)}

\* C11: the final result list holds, with the publish flag off, exactly the
\* entries repo/path of the files changed in the repositories whose commit
\* succeeded and, with the publish flag on, exactly one pull request for
\* each such repository; NoMatch and NoOpCommit repositories add nothing.
C11_ResultListExact ==
    pc = "done" =>
        IF pr
        THEN /\ Len(results) = Cardinality(WithStatus("PRCreated"))
             /\ {results[i].repo : i \in 1..Len(results)} = WithStatus("PRCreated")
             /\ \A i \in 1..Len(results) : "pull" \in DOMAIN results[i]
        ELSE Range(results) =
                 UNION {{[repo |-> n, path |-> p] : p \in ChangedPaths(n)} :
                            n \in WithStatus("Committed")}

\* The result list is exact in every run whose target and replacement differ
\* and that processes no repository twice: the only unchanged file ever
\* reported is one matched by a run with equal strings, whose commit exists
\* because of the line-ending rewrite.
ResultListExactWhenStringsDiffer ==
    (target # replacement /\ Cardinality(Range(repo_names)) = Len(repo_names))
        => C11_ResultListExact

\* the head of the current workspace carries a commit that changed the tree
JustCommitted ==
    LET h == repo.branches[repo.head]
    IN  /\ Len(h) >= 2
        /\ h[Len(h)] # h[Len(h) - 1]
        /\ ~Dirty(repo)

Published(n) == <<"push", n>> \in calls \/ <<"create_pull", n>> \in calls

\* C12: the push and the pull-request creation happen for a repository only
\* if the publish flag is set and the commit step produced a commit; in a run
\* with the flag off nothing is pushed and no pull request is created.
C12_PublishOnlyWithFlagAndCommit ==
    /\ pc \in {"push", "create_pull"} => pr /\ JustCommitted
    /\ \A n \in AllNames : Published(n) => pr
    /\ ~pr => remote = [n \in AllNames |-> InitRemote(n)]

C12_Witness ==
    /\ pc = "create_pull"
    /\ pr
    /\ <<"push", repo_name>> \in calls
    /\ branch_name \in DOMAIN remote_repo.branches

\* an earlier invocation, run without the publish flag, committed on repository n
CommittedUnpublishedBefore(n) ==
    \E i \in 1..Len(outcomes) :
        /\ outcomes[i].run < run
        /\ outcomes[i].repo = n
        /\ outcomes[i].status = "Committed"

\* C13: after a run without the publish flag that committed changes in a
\* workspace, the same command run again with the publish flag on the same
\* work root pushes the branch and opens a pull request: the second run
\* never stops at the branch creation of that repository, and when it ends
\* the repository has its pull request.
C13_RerunWithFlagPublishes ==
    /\ (pc = "crashed" /\ error = "create_head" /\ pr)
           => ~CommittedUnpublishedBefore(repo_name)
    /\ (pc = "done" /\ pr) =>
           \A n \in AllNames :
               CommittedUnpublishedBefore(n) => n \in WithStatus("PRCreated")

\* the running invocation meets the current repository for the first time
FirstVisit == \A i \in 1..(idx - 1) : repo_names[i] # repo_name

\* C14: repeated invocations accumulate neither stale branches nor
\* uncommitted edits: when the mutation step starts, the workspace has no
\* uncommitted change and no topic branch left by a previous invocation.
C14_NoLeftoverAtMutation ==
    (pc = "mutate" /\ FirstVisit) =>
        /\ ~Dirty(repo)
        /\ DOMAIN repo.branches \subseteq {base_branch}

\* The half of C14 about uncommitted edits holds: the reset of line 68, or
\* the clone of line 73, leaves a clean tree at the start of every mutation.
CleanAtMutation ==
    pc = "mutate" => ~Dirty(repo)

\* the workspace is on the default branch, level with the upstream default
\* branch, with a working tree equal to the upstream tip
Synced ==
    /\ repo.exists
    /\ base_branch = DefaultBranch(repo_name)
    /\ repo.head = base_branch
    /\ repo.branches[base_branch] = remote_repo.branches[base_branch]
    /\ repo.wt = Tip(remote_repo.branches[base_branch])

\* C15: before any file is rewritten the workspace is on the default branch
\* with a clean tree equal to the upstream default branch, whether it was
\* cloned or reused from an earlier run; the topic branch is then created
\* from that synced state.
C15_SyncedBeforeRewrite ==
    /\ pc \in {"locate", "mutate"} => Synced
    /\ pc = "checkout_branch" =>
           /\ repo.head = base_branch
           /\ repo.branches[branch_name] = remote_repo.branches[base_branch]

\* a reused workspace that still holds the topic branch of an earlier run
C15_Witness ==
    /\ pc = "mutate"
    /\ <<"pull", repo_name>> \in calls
    /\ branch_name \in DOMAIN repo.branches
    /\ branch_name # base_branch
    /\ repo.branches[branch_name] # repo.branches[base_branch]

\* no target file was given and no file of the synced tree holds the target
SearchFindsNothing ==
    /\ pc = "locate"
    /\ target_file = ""
    /\ \A p \in DOMAIN repo.wt : ~IsSubstring(repo.wt[p], target)

\* C16: when no target file is given and the search returns nothing, the
\* repository's outcome is NoMatch and every downstream step is skipped:
\* nothing is rewritten, no branch is created, nothing is committed or
\* pushed, no pull request is created, and the run goes to the next
\* repository.
C16_NoMatchSkipsDownstream ==
    [][SearchFindsNothing =>
          /\ outcomes' = Append(outcomes,
                 [run |-> run, repo |-> repo_name, status |-> "NoMatch"])
          /\ pc' = "loop"
          /\ idx' = idx + 1
          /\ results' = results
          /\ local' = local
          /\ remote' = remote
          /\ calls' = calls]_vars

C16_Witness ==
    /\ pc = "loop"
    /\ idx > 1
    /\ outcomes # <<>>
    /\ outcomes[Len(outcomes)] =
           [run |-> run, repo |-> repo_names[idx - 1], status |-> "NoMatch"]
    /\ local[repo_names[idx - 1]].exists

\* every pull request of the remote has a pushed branch as its head
PullHeadsPushed ==
    \A n \in AllNames : \A i \in 1..Len(remote[n].pulls) :
        remote[n].pulls[i].head \in DOMAIN remote[n].branches

\* the outcome the running invocation recorded last
LastOutcome ==
    IF RunOutcomes = <<>> THEN [run |-> run, repo |-> <<>>, status |-> ""]
    ELSE RunOutcomes[Len(RunOutcomes)]

\* C17: in publish mode with a commit, the order is push, backoff, pull
\* request with the topic branch as head; no pull request is opened for a
\* branch that was not pushed; a failure of the push or of the pull-request
\* creation gives that repository the Failed outcome.
C17_PushThenPullOrFailed ==
    /\ PullHeadsPushed
    /\ pc = "create_pull" =>
           /\ <<"push", repo_name>> \in calls
           /\ branch_name \in DOMAIN remote_repo.branches
           /\ remote_repo.branches[branch_name] = repo.branches[branch_name]
    /\ error \in {"push", "create_pull"} =>
           /\ pc # "crashed"
           /\ LastOutcome.repo = repo_name
           /\ LastOutcome.status = "Failed"

\* The ordering half of C17 holds on its own.
PushBeforePull ==
    /\ PullHeadsPushed
    /\ pc = "create_pull" =>
           /\ <<"push", repo_name>> \in calls
           /\ branch_name \in DOMAIN remote_repo.branches
           /\ remote_repo.branches[branch_name] = repo.branches[branch_name]

\* the paths of the working tree whose content holds the target
SearchResult == {p \in DOMAIN repo.wt : IsSubstring(repo.wt[p], target)}

\* C18: the mutation rewrites only files of the change set: with a target
\* file the change set is exactly that path, otherwise exactly the paths of
\* the search; every other file of the workspace and every other
\* repository's workspace keep their content through the mutation step.
C18_OnlyChangeSetRewritten ==
    [][pc = "mutate" =>
          /\ target_file # "" => file_paths = <<target_file>>
          /\ target_file = "" =>
                 /\ Range(file_paths) = SearchResult
                 /\ Len(file_paths) = Cardinality(SearchResult)
          /\ \A n \in AllNames \ {repo_name} : local'[n] = local[n]
          /\ \A p \in Paths \ Range(file_paths) :
                 At(local'[repo_name].wt, p) = At(repo.wt, p)
          /\ local'[repo_name].branches = repo.branches
          /\ local'[repo_name].head = repo.head
          /\ remote' = remote]_vars

\* a file of the change set was rewritten next to a file that holds the
\* target and is outside the change set, with another workspace present
C18_Witness ==
    /\ pc = "create_head"
    /\ target_file = "g"
    /\ repo_name = NameSA
    /\ repo.wt["g"] # HeadTree(repo)["g"]
    /\ repo.wt["f"] = HeadTree(repo)["f"]
    /\ IsSubstring(repo.wt["f"], target)
    /\ \E n \in AllNames \ {repo_name} : local[n].exists

\* a path of the change set is absent from the working tree
MissingPath == \E p \in Range(file_paths) : ~HasFile(repo.wt, p)

\* C19: a matched path that is missing at mutation time gives only a
\* warning: the file is skipped, every other matched file is still
\* rewritten, the pipeline goes on to the branch and commit steps, and the
\* run is not aborted.
C19_MissingFileOnlyWarns ==
    [][/\ (pc = "mutate" /\ MissingPath) =>
              /\ pc' = "create_head"
              /\ error' = ""
              /\ \A p \in Range(file_paths) :
                     IF HasFile(repo.wt, p)
                     THEN /\ HasFile(local'[repo_name].wt, p)
                          /\ local'[repo_name].wt[p] =
                                 RewriteContent(repo.wt[p], target, replacement)
                     ELSE ~HasFile(local'[repo_name].wt, p)
       /\ pc' # "crashed"
       /\ pc = "commit" => pc' = "loop" /\ Len(outcomes') = Len(outcomes) + 1]_vars

\* the missing path came first, the other matched file was rewritten and
\* the repository was committed
C19_Witness ==
    /\ pc = "loop"
    /\ file_paths = <<"g", "f">>
    /\ ~HasFile(local[NameSB].wt, "g")
    /\ local[NameSB].wt["f"] # Tip(local[NameSB].branches[base_branch])["f"]
    /\ outcomes = <<[run |-> 1, repo |-> NameSB, status |-> "Committed"]>>

\* ---- version tags

\* the script ended normally and no tag operation failed on the way
BumpSucceeded ==
    /\ bpc = "done"
    /\ \A i \in 1..Len(tag_log) : tag_log[i][1] # "failed"

\* operation op on tag name was done, and done before position k of the log
DoneBefore(op, name, k) == \E i \in 1..(k - 1) : tag_log[i] = <<op, name>>

\* name was deleted where it existed before it was created and pushed
ReplacedInOrder(name) ==
    \A k \in 1..Len(tag_log) :
        /\ (tag_log[k] = <<"create", name>>
                /\ name \in DOMAIN tags_before.local \cup DOMAIN tags_before.origin)
               => DoneBefore("delete_local", name, k)
        /\ (tag_log[k] = <<"push", name>> /\ name \in DOMAIN tags_before.origin)
               => DoneBefore("delete_remote", name, k) /\ DoneBefore("create", name, k)

\* name is a tag of both sides and points to the current commit
TaggedAtHead(name) ==
    /\ name \in DOMAIN tags /\ tags[name] = "head"
    /\ name \in DOMAIN origin_tags /\ origin_tags[name] = "head"

\* the three tags of the new version exist on both sides at the current
\* commit, each put in place of the tag of that name, if any
ThreeTagsBumped ==
    /\ Len(new_version_list) = 3
    /\ \A name \in {new_version_list, SubSeq(new_version_list, 1, 2),
                    SubSeq(new_version_list, 1, 1)} :
           TaggedAtHead(name) /\ ReplacedInOrder(name)

NothingTagged ==
    /\ tag_log = <<>>
    /\ tags = tags_before.local
    /\ origin_tags = tags_before.origin

\* C20: after a successful run from master the tags MAJOR.MINOR.PATCH,
\* MAJOR.MINOR and MAJOR of the incremented version exist in the repository
\* and on the remote and point to the current commit; a tag of that name
\* that already existed is deleted on both sides before the new one is
\* created and pushed; on another branch than master no tag is created,
\* deleted or pushed.
C20_TagsBumped ==
    /\ BumpSucceeded => ThreeTagsBumped
    /\ active_branch # "master" => NothingTagged /\ bpc \in {"prepare", "failed"}

\* C20 holds for every repository whose tags have at most three components.
TagsBumpedWithoutLongTags ==
    (\A name \in DOMAIN tags_before.local \cup DOMAIN tags_before.origin : Len(name) <= 3)
        => C20_TagsBumped

====
